---- MODULE Spec2Model ----
(***************************************************************************)
(* Model of the storage-backend repository: the semaphore-bounded storage  *)
(* backends (S3Storage, GCSStorage, HTTPStorage, PooledStorage) and the    *)
(* batch orchestrator download_images of examples/download_s3.py.          *)
(*                                                                         *)
(* One step of the model is one step of the asyncio event loop: the code a *)
(* coroutine runs between two suspension points.                           *)
(***************************************************************************)
EXTENDS Integers, Sequences, FiniteSets, TLC

\* ---------------------------------------------------------------- bounds
MaxImages == 3
MaxLimit == 2

KeyOrder == <<"a", "b", "c">>
Keys == {KeyOrder[k] : k \in 1..Len(KeyOrder)}
\* the object stored at each key of the input backend's namespace
objects == [k \in Keys |-> IF k = "a" THEN <<1>> ELSE IF k = "b" THEN <<2, 1>> ELSE <<>>]
Causes == {"TransportError"}

\* the two backend instances handed to download_images
Backends == {"in", "out"}

NoCaller == -1
NoResult == <<0>>
NoCause == "none"

VARIABLES
    images,     \* the list of keys given to download_images
    same,       \* TRUE when input and output are the same backend instance
    cap,        \* max_concurrent of each backend instance
    sem,        \* the asyncio.Semaphore of each backend: value and waiters
    st,         \* position of each coroutine: st[0] download_images, st[i] task i
    result,     \* result[i]: the bytes task i's input.get returned
    texc,       \* texc[i]: the exception task i ended with
    completed,  \* the tasks in the order as_completed saw them complete
    taken,      \* how many futures the loop of download_images has awaited
    ust,        \* ust[i]: state of output.put for occurrence i
    putKey,     \* putKey[i]: the key output.put was called with
    putData,    \* putData[i]: the bytes the output client read from the file
    cur,        \* the task whose result the loop of download_images holds
    file,       \* the io.BytesIO the loop of download_images passed to put
    exc,        \* the exception download_images raised
    ngets,      \* ngets[i]: how many times input.get was called for occurrence i
    nputs,      \* nputs[i]: how many times output.put was called for occurrence i
    \* a backend built by build_storage and called by one caller at a time
    cfg,        \* the settings given to build_storage
    mc,         \* the max_concurrent given to build_storage, Omitted for the default
    pooled,     \* TRUE when the caller wraps the built backend in PooledStorage
    bk,         \* what build_storage gave: the backend instance or the error
    fs,         \* the filesystem under the root of LocalSettings.root_dir
    calls,      \* how many get and put calls were made on the backend
    last,       \* the last call: operation, key, underlying failure, outcome
    written,    \* written[k]: the bytes of the last put to k that returned
    nacq,       \* acquisitions of the backend's own semaphore
    nrel,       \* releases of the backend's own semaphore
    npool,      \* acquisitions of the PooledStorage semaphore
    nio         \* calls of the backend's client (boto3, google, httpx)

xferVars == <<images, same, cap, sem, st, result, texc, completed, taken,
              ust, putKey, putData, cur, file, exc, ngets, nputs>>

bkVars == <<cfg, mc, pooled, bk, fs, calls, last, written, nacq, nrel, npool, nio>>

vars == <<images, same, cap, sem, st, result, texc, completed, taken,
          ust, putKey, putData, cur, file, exc, ngets, nputs,
          cfg, mc, pooled, bk, fs, calls, last, written, nacq, nrel, npool, nio>>

\* ---------------------------------------------------------------- helpers
Min(S) == CHOOSE x \in S : \A y \in S : x <= y

SeqsUpTo(S, n) == UNION {[1..k -> S] : k \in 0..n}

Remove(ws, c) == SelectSeq(ws, LAMBDA x : x # c)

\* the key lists download_images is called with: every list of at most
\* MaxImages keys, duplicates included, one list per renaming of the keys (a
\* key occurs for the first time only after the keys before it in KeyOrder)
KeyLists ==
    {s \in SeqsUpTo(Keys, MaxImages) :
        \A k \in 1..Len(s) : \A m \in 1..Len(KeyOrder) :
            (KeyOrder[m] = s[k]) =>
                \A l \in 1..(m - 1) : \E j \in 1..(k - 1) : s[j] = KeyOrder[l]}

N == Len(images)
Tasks == DOMAIN st \ {0}
pc == st[0]

\* the backend instance output.put runs on
OutB == IF same THEN "in" ELSE "out"

BytesIO_at_end(b) == [buf |-> b, pos |-> Len(b)]

\* io.BytesIO(initial): a buffer positioned at its start
BytesIO(b) == [buf |-> b, pos |-> 0]
\* file.read(): everything from the current position
read(f) == SubSeq(f.buf, f.pos + 1, Len(f.buf))
\* buf.getvalue(): the whole buffer whatever the position
getvalue(f) == f.buf
\* client.download_fileobj(..., buf): the client writes the object into buf
write(f, b) == [buf |-> SubSeq(f.buf, 1, f.pos) \o b, pos |-> f.pos + Len(b)]

\* ---------------------------------------------------------------- semaphore
locked_ignores_value(s) == s.waiters # <<>>

\* Semaphore.locked(): no cancellation happens in this code, so every waiter
\* counts
locked(s) == s.value = 0 \/ s.waiters # <<>>

\* the first waiter whose future is not done
FirstPending(ws, t) ==
    LET idx == {k \in 1..Len(ws) : t[ws[k]] = "waiting"}
    IN  IF idx = {} THEN NoCaller ELSE ws[Min(idx)]

wake_up_nobody(b, s, t) == [sem |-> s, st |-> t]

\* Semaphore._wake_up_next()
wake_up_next(b, s, t) ==
    LET c == FirstPending(s[b].waiters, t)
    IN  IF c = NoCaller
        THEN [sem |-> s, st |-> t]
        ELSE [sem |-> [s EXCEPT ![b].value = @ - 1],
              st  |-> [t EXCEPT ![c] = "woken"]]

\* Semaphore.release()
release(b, s, t) == wake_up_next(b, [s EXCEPT ![b].value = @ + 1], t)

\* `async with self._semaphore:` followed by loop.run_in_executor(...), up to
\* the first suspension of caller c: either the permit is taken and the
\* blocking client call is submitted, or c waits on a future
acquire(b, c, s, t) ==
    IF ~locked(s[b])
    THEN [sem |-> [s EXCEPT ![b].value = @ - 1],
          st  |-> [t EXCEPT ![c] = "running"]]
    ELSE [sem |-> [s EXCEPT ![b].waiters = Append(@, c)],
          st  |-> [t EXCEPT ![c] = "waiting"]]

\* the rest of Semaphore.acquire() once the waiter's future is done, then
\* loop.run_in_executor(...)
resume(b, c, s, t) ==
    LET s1 == [s EXCEPT ![b].waiters = Remove(@, c)]
        t1 == [t EXCEPT ![c] = "running"]
    IN  IF s1[b].value > 0 THEN wake_up_next(b, s1, t1)
        ELSE [sem |-> s1, st |-> t1]

\* ---------------------------------------------------------------- Init
XferInit ==
    /\ images = <<>>
    /\ same \in BOOLEAN
    /\ cap \in [Backends -> 1..MaxLimit]
    /\ same => cap["out"] = cap["in"]
    /\ sem = [b \in Backends |-> [value |-> cap[b], waiters |-> <<>>]]
    /\ st = (0 :> "idle")
    /\ result = <<>>
    /\ texc = <<>>
    /\ completed = <<>>
    /\ taken = 0
    /\ ust = <<>>
    /\ putKey = <<>>
    /\ putData = <<>>
    /\ cur = NoCaller
    /\ file = BytesIO(<<>>)
    /\ exc = NoCause
    /\ ngets = <<>>
    /\ nputs = <<>>

\* ---------------------------------------------------------------- backends
\* S3Storage.get after the client call returned object bytes b:
\* buf = io.BytesIO(); download_fileobj(..., buf); out = buf.getvalue()
get_out(b) == getvalue(write(BytesIO(<<>>), b))

aexit_on_return_only(b, s, t, failed) ==
    IF failed THEN [sem |-> s, st |-> t] ELSE release(b, s, t)

\* leaving `async with self._semaphore:`; failed tells whether the block is
\* left by an exception
aexit(b, s, t, failed) == release(b, s, t)

\* tagged(key, coro): the value of the task when coro returned r
tagged(key, r) == <<key, r>>

\* ---------------------------------------------------------------- download_images
create_first_task(imgs) == [i \in 1..(IF Len(imgs) = 0 THEN 0 ELSE 1) |-> "created"]

create_tasks_dedup(imgs) ==
    [i \in 1..Cardinality({imgs[k] : k \in 1..Len(imgs)}) |-> "created"]

\* tasks = [asyncio.create_task(tagged(image, input.get(image))) for image in images]
create_tasks(imgs) == [i \in 1..Len(imgs) |-> "created"]

in_submission_order(comp, tk, t) ==
    IF (tk + 1) \in DOMAIN t /\ t[tk + 1] \in {"done", "failed"} THEN tk + 1 ELSE NoCaller

\* asyncio.as_completed(tasks): the next future of the iteration, in the
\* order of completion; NoCaller while none is ready
as_completed_next(comp, tk, t) ==
    IF Len(comp) > tk THEN comp[tk + 1] ELSE NoCaller

AllStarted == \A i \in Tasks : st[i] # "created"

\* download_images is called: the tasks are created and the coroutine runs up
\* to its first suspension, inside as_completed
Invoke(imgs) ==
    /\ pc = "idle"
    /\ images' = imgs
    /\ LET ts == create_tasks(imgs)
       IN  st' = [c \in {0} \cup DOMAIN ts |->
                    IF c = 0 THEN (IF Len(imgs) = 0 THEN "returned" ELSE "await_fut")
                    ELSE ts[c]]
    /\ result' = [i \in 1..Len(imgs) |-> NoResult]
    /\ texc' = [i \in 1..Len(imgs) |-> NoCause]
    /\ ust' = [i \in 1..Len(imgs) |-> "none"]
    /\ putKey' = [i \in 1..Len(imgs) |-> "none"]
    /\ putData' = [i \in 1..Len(imgs) |-> NoResult]
    /\ ngets' = [i \in 1..Len(imgs) |-> 0]
    /\ nputs' = [i \in 1..Len(imgs) |-> 0]
    /\ UNCHANGED <<same, cap, sem, completed, taken, cur, file, exc>>
    /\ UNCHANGED bkVars

\* first step of task i: tagged() calls input.get, which takes a permit and
\* submits the client call, or waits.  The event loop runs the tasks in the
\* order they were created.
TaskStart(i) ==
    /\ i \in DOMAIN st /\ i # 0
    /\ st[i] = "created"
    /\ \A j \in 1..(i - 1) : st[j] # "created"
    /\ LET a == acquire("in", i, sem, st)
       IN  sem' = a.sem /\ st' = a.st
    /\ ngets' = [ngets EXCEPT ![i] = @ + 1]
    /\ UNCHANGED <<images, same, cap, result, texc, completed, taken,
                   ust, putKey, putData, cur, file, exc, nputs>>
    /\ UNCHANGED bkVars

\* task i was handed a permit by a release: it leaves Semaphore.acquire and
\* submits the client call
TaskResume(i) ==
    /\ i \in DOMAIN st /\ i # 0
    /\ st[i] = "woken"
    /\ LET a == resume("in", i, sem, st)
       IN  sem' = a.sem /\ st' = a.st
    /\ UNCHANGED <<images, same, cap, result, texc, completed, taken,
                   ust, putKey, putData, cur, file, exc, ngets, nputs>>
    /\ UNCHANGED bkVars

\* the client call of task i returned the bytes of the object at its key:
\* the permit is released, the task ends with (key, bytes), as_completed
\* queues it
TaskFinishOk(i) ==
    /\ i \in DOMAIN st /\ i # 0
    /\ st[i] = "running"
    /\ AllStarted
    /\ LET a == aexit("in", sem, [st EXCEPT ![i] = "done"], FALSE)
       IN  sem' = a.sem /\ st' = a.st
    /\ result' = [result EXCEPT ![i] = tagged(images[i], get_out(objects[images[i]]))]
    /\ completed' = Append(completed, i)
    /\ UNCHANGED <<images, same, cap, texc, taken, ust, putKey, putData, cur, file, exc,
                   ngets, nputs>>
    /\ UNCHANGED bkVars

\* the client call of task i raised e: the permit is released, the exception
\* leaves get and tagged, the task ends with it, as_completed queues it
TaskFinishErr(i, e) ==
    /\ i \in DOMAIN st /\ i # 0
    /\ st[i] = "running"
    /\ AllStarted
    /\ LET a == aexit("in", sem, [st EXCEPT ![i] = "failed"], TRUE)
       IN  sem' = a.sem /\ st' = a.st
    /\ texc' = [texc EXCEPT ![i] = e]
    /\ completed' = Append(completed, i)
    /\ UNCHANGED <<images, same, cap, result, taken, ust, putKey, putData, cur, file, exc,
                   ngets, nputs>>
    /\ UNCHANGED bkVars

loop_body_put_not_awaited(f, s, t) ==
    IF t[f] = "failed"
    THEN [sem |-> s, st |-> [t EXCEPT ![0] = "raised"], ust |-> ust,
          putKey |-> putKey, file |-> file, exc |-> texc[f], nputs |-> nputs]
    ELSE [sem |-> s, st |-> [t EXCEPT ![0] = "await_fut"],
          ust |-> [ust EXCEPT ![f] = "started"],
          putKey |-> [putKey EXCEPT ![f] = result[f][1]],
          file |-> BytesIO(result[f][2]), exc |-> exc,
          nputs |-> [nputs EXCEPT ![f] = @ + 1]]

\* one iteration of `for fut in asyncio.as_completed(tasks)` on the completed
\* task f, from `image, result = await fut` up to the next suspension: the
\* exception of a failed task leaves download_images; otherwise
\* output.put(image, io.BytesIO(result)) is called, which takes a permit of
\* the output backend and submits the client call, or waits
loop_body(f, s, t) ==
    IF t[f] = "failed"
    THEN [sem |-> s, st |-> [t EXCEPT ![0] = "raised"], ust |-> ust,
          putKey |-> putKey, file |-> file, exc |-> texc[f], nputs |-> nputs]
    ELSE LET a == acquire(OutB, 0, s, t)
         IN  [sem |-> a.sem, st |-> a.st,
              ust |-> [ust EXCEPT ![f] = "started"],
              putKey |-> [putKey EXCEPT ![f] = result[f][1]],
              file |-> BytesIO(result[f][2]), exc |-> exc,
              nputs |-> [nputs EXCEPT ![f] = @ + 1]]

\* a completed future reaches download_images, suspended in as_completed
MainNext ==
    /\ pc = "await_fut"
    /\ taken < N
    /\ LET f == as_completed_next(completed, taken, st)
       IN  /\ f # NoCaller
           /\ LET r == loop_body(f, sem, st)
              IN  /\ sem' = r.sem /\ st' = r.st /\ ust' = r.ust
                  /\ putKey' = r.putKey /\ file' = r.file /\ exc' = r.exc
                  /\ nputs' = r.nputs
           /\ cur' = f
    /\ taken' = taken + 1
    /\ UNCHANGED <<images, same, cap, result, texc, completed, putData, ngets>>
    /\ UNCHANGED bkVars

\* download_images, waiting in output.put for a permit, was handed one: it
\* leaves Semaphore.acquire and submits the client call
PutResume ==
    /\ pc = "woken"
    /\ LET a == resume(OutB, 0, sem, st)
       IN  sem' = a.sem /\ st' = a.st
    /\ UNCHANGED <<images, same, cap, result, texc, completed, taken,
                   ust, putKey, putData, cur, file, exc, ngets, nputs>>
    /\ UNCHANGED bkVars

\* the client call of output.put returned: the permit is released and the
\* loop goes on, to the end of download_images, to the next completed future
\* if one is queued, or to its suspension in as_completed
PutFinishOk ==
    /\ pc = "running"
    /\ LET a == aexit(OutB, sem, st, FALSE)
           u == [ust EXCEPT ![cur] = "done"]
           f == as_completed_next(completed, taken, a.st)
       IN  IF taken = N
           THEN /\ sem' = a.sem
                /\ st' = [a.st EXCEPT ![0] = "returned"]
                /\ ust' = u
                /\ UNCHANGED <<putKey, file, exc, cur, taken, nputs>>
           ELSE IF f = NoCaller
           THEN /\ sem' = a.sem
                /\ st' = [a.st EXCEPT ![0] = "await_fut"]
                /\ ust' = u
                /\ UNCHANGED <<putKey, file, exc, cur, taken, nputs>>
           ELSE LET r == loop_body(f, a.sem, a.st)
                IN  /\ sem' = r.sem /\ st' = r.st
                    /\ ust' = [r.ust EXCEPT ![cur] = "done"]
                    /\ putKey' = r.putKey /\ file' = r.file /\ exc' = r.exc
                    /\ nputs' = r.nputs
                    /\ cur' = f
                    /\ taken' = taken + 1
    /\ putData' = [putData EXCEPT ![cur] = read(file)]
    /\ UNCHANGED <<images, same, cap, result, texc, completed, ngets>>
    /\ UNCHANGED bkVars

\* the client call of output.put raised e: the permit is released and the
\* exception leaves put and download_images
PutFinishErr(e) ==
    /\ pc = "running"
    /\ LET a == aexit(OutB, sem, st, TRUE)
       IN  sem' = a.sem /\ st' = [a.st EXCEPT ![0] = "raised"]
    /\ ust' = [ust EXCEPT ![cur] = "failed"]
    /\ exc' = e
    /\ UNCHANGED <<images, same, cap, result, texc, completed, taken,
                   putKey, putData, cur, file, ngets, nputs>>
    /\ UNCHANGED bkVars

\* ---------------------------------------------------------------- build_storage
max_workers_one(max_concurrent) == 1

\* ThreadPoolExecutor(max_workers=max_concurrent): the number of workers
max_workers(max_concurrent) == max_concurrent

\* max_concurrent: int = 1 of build_storage and of the backend constructors
DefaultMaxConcurrent == 1

None == "None"
\* Python's None where bytes are expected
Nothing == <<-1>>
Omitted == 0
\* capacity of a backend that has no semaphore
NoSemaphore == 0

\* the discriminators of settings.py, and one that matches no case
Kinds == {"local", "http", "s3", "gcs"}
UnknownKind == "ftp"

\* the settings values build_storage is given: the discriminator and the
\* field its case asserts on, set or None
Settings ==
    {[backend |-> k, required |-> r] : k \in Kinds \cup {UnknownKind}, r \in {"set", None}}

\* the field build_storage asserts on for each kind
required_field(kind) ==
    CASE kind = "local" -> "root_dir"
      [] kind = "http"  -> "base_url"
      [] kind \in {"s3", "gcs"} -> "bucket"
      [] OTHER -> None

\* a backend instance: its class, the value of its semaphore (NoSemaphore
\* when it has none) and the workers of its executor
Instance(cls, capacity, workers) ==
    [cls |-> cls, capacity |-> capacity, workers |-> workers,
     err |-> NoCause, instances |-> 1]

\* build_storage raised e before it constructed anything
Raised(e) ==
    [cls |-> "none", capacity |-> NoSemaphore, workers |-> 0, err |-> e, instances |-> 0]

Unbuilt ==
    [cls |-> "unbuilt", capacity |-> NoSemaphore, workers |-> 0, err |-> NoCause,
     instances |-> 0]

\* LocalStorage.__init__(root): no semaphore, no executor
LocalStorage(root) == Instance("LocalStorage", NoSemaphore, 0)

\* HTTPStorage.__init__(base_url, headers, max_concurrent=1)
HTTPStorage(base_url, max_concurrent) ==
    Instance("HTTPStorage", max_concurrent, max_workers(max_concurrent))

\* S3Storage.__init__(bucket, prefix, max_concurrent=1)
S3Storage(bucket, max_concurrent) ==
    Instance("S3Storage", max_concurrent, max_workers(max_concurrent))

\* GCSStorage.__init__(bucket, prefix, max_concurrent=1)
GCSStorage(bucket, max_concurrent) ==
    Instance("GCSStorage", max_concurrent, max_workers(max_concurrent))

\* the max_concurrent parameter of build_storage after its default
arg_or_default(m) == IF m = Omitted THEN DefaultMaxConcurrent ELSE m

build_storage_unchecked(storage, max_concurrent) ==
    CASE storage.backend = "local" -> LocalStorage(storage.required)
      [] storage.backend = "http"  -> HTTPStorage(storage.required, DefaultMaxConcurrent)
      [] storage.backend = "s3"    -> S3Storage(storage.required, arg_or_default(max_concurrent))
      [] storage.backend = "gcs"   -> GCSStorage(storage.required, DefaultMaxConcurrent)
      [] OTHER -> Raised("NotImplementedError")

\* build_storage(storage, max_concurrent=1): only the s3 case passes
\* max_concurrent on; http and gcs are built with their default, local has
\* no limit
build_storage(storage, max_concurrent) ==
    CASE storage.backend = "local" ->
            IF storage.required = None THEN Raised("AssertionError")
            ELSE LocalStorage(storage.required)
      [] storage.backend = "http" ->
            IF storage.required = None THEN Raised("AssertionError")
            ELSE HTTPStorage(storage.required, DefaultMaxConcurrent)
      [] storage.backend = "s3" ->
            IF storage.required = None THEN Raised("AssertionError")
            ELSE S3Storage(storage.required, arg_or_default(max_concurrent))
      [] storage.backend = "gcs" ->
            IF storage.required = None THEN Raised("AssertionError")
            ELSE GCSStorage(storage.required, DefaultMaxConcurrent)
      [] OTHER -> Raised("NotImplementedError")

\* ---------------------------------------------------------------- LocalStorage
MaxCalls == 3

\* the keys the backend is called with, and the payloads put
BKeys == {"a", "a/b", "b"}
BPayloads == {<<1>>, <<2, 1>>}

\* self.root / key: the components of the path under the root
parts(key) ==
    CASE key = "a"   -> <<"a">>
      [] key = "a/b" -> <<"a", "b">>
      [] key = "b"   -> <<"b">>

Paths == {<<>>} \cup {parts(k) : k \in BKeys}

\* path.parent
parent(p) == IF p = <<>> THEN p ELSE SubSeq(p, 1, Len(p) - 1)

Absent == [t |-> "absent", data |-> <<>>]
Dir == [t |-> "dir", data |-> <<>>]
File(b) == [t |-> "file", data |-> b]

\* the outcome of a call: a returned value or a raised exception
Ok(v) == [ok |-> TRUE, val |-> v, err |-> NoCause]
Raise(e) == [ok |-> FALSE, val |-> NoResult, err |-> e]

\* path.exists(): a path under a missing directory or under a file does not
\* exist
exists(f, p) ==
    /\ f[p].t # "absent"
    /\ \A n \in 0..(Len(p) - 1) : f[SubSeq(p, 1, n)].t = "dir"

\* os.mkdir(d)
os_mkdir(f, d) ==
    IF f[d].t # "absent" THEN [fs |-> f, err |-> "FileExistsError"]
    ELSE IF f[parent(d)].t = "absent" THEN [fs |-> f, err |-> "FileNotFoundError"]
    ELSE IF f[parent(d)].t = "file" THEN [fs |-> f, err |-> "NotADirectoryError"]
    ELSE [fs |-> [f EXCEPT ![d] = Dir], err |-> NoCause]

\* Path.mkdir(parents=True, exist_ok=True)
RECURSIVE mkdir(_, _)
mkdir(f, d) ==
    LET r == os_mkdir(f, d)
    IN  IF r.err = NoCause THEN r
        ELSE IF r.err = "FileNotFoundError"
        THEN IF parent(d) = d THEN r
             ELSE LET q == mkdir(f, parent(d))
                  IN  IF q.err # NoCause THEN q ELSE os_mkdir(q.fs, d)
        ELSE IF f[d].t = "dir" THEN [fs |-> f, err |-> NoCause] ELSE r

\* path.write_bytes(data): open(path, "wb") and write
write_bytes(f, p, data) ==
    IF f[p].t = "dir" THEN [fs |-> f, err |-> "IsADirectoryError"]
    ELSE IF ~exists(f, parent(p)) THEN [fs |-> f, err |-> "FileNotFoundError"]
    ELSE [fs |-> [f EXCEPT ![p] = File(data)], err |-> NoCause]

\* path.read_bytes()
read_bytes(f, p) ==
    IF ~exists(f, p) THEN Raise("FileNotFoundError")
    ELSE IF f[p].t = "dir" THEN Raise("IsADirectoryError")
    ELSE Ok(f[p].data)

\* LocalStorage.__init__: self.root.mkdir(parents=True, exist_ok=True)
local_init(f) == mkdir(f, <<>>).fs

local_put_append(f, key, fl) ==
    LET p == parts(key)
        m == mkdir(f, parent(p))
        old == IF m.fs[p].t = "file" THEN m.fs[p].data ELSE <<>>
    IN  IF m.err # NoCause THEN [fs |-> m.fs, out |-> Raise(m.err)]
        ELSE LET w == write_bytes(m.fs, p, old \o read(fl))
             IN  [fs |-> w.fs, out |-> IF w.err = NoCause THEN Ok(Nothing) ELSE Raise(w.err)]

\* LocalStorage.put(key, file): the parent directories are made, then the
\* bytes read from the file replace the file at root / key
local_put(f, key, fl) ==
    LET p == parts(key)
        m == mkdir(f, parent(p))
    IN  IF m.err # NoCause THEN [fs |-> m.fs, out |-> Raise(m.err)]
        ELSE LET w == write_bytes(m.fs, p, read(fl))
             IN  [fs |-> w.fs, out |-> IF w.err = NoCause THEN Ok(Nothing) ELSE Raise(w.err)]

\* LocalStorage.get(key): FileNotFoundError(key) when root / key does not
\* exist, else the bytes read_bytes gives, or the exception it raises
local_get(f, key) ==
    LET p == parts(key)
    IN  IF ~exists(f, p) THEN [fs |-> f, out |-> Raise("FileNotFoundError")]
        ELSE [fs |-> f, out |-> read_bytes(f, p)]

\* ---------------------------------------------------------------- remote backends
\* what the client library did in one call: it returned (for httpx, a
\* response with a status) or it raised
Returned(b) == [raised |-> FALSE, status |-> 200, body |-> b, cause |-> NoCause]
ErrorStatus == [raised |-> FALSE, status |-> 404, body |-> <<>>, cause |-> NoCause]
ClientRaised(e) == [raised |-> TRUE, status |-> 0, body |-> <<>>, cause |-> e]

\* boto3 and google-cloud raise on every failure; httpx.Client.get returns
\* the response of a failed request
ClientOutcomes(cls) ==
    {Returned(b) : b \in BPayloads} \cup {ClientRaised(e) : e \in Causes}
        \cup (IF cls = "HTTPStorage" THEN {ErrorStatus} ELSE {})

client_failed(c) == c.raised \/ c.status >= 400

\* the effect of a call on a backend: its outcome and how many times it took
\* and gave back the backend's semaphore and called the client
Effect(out, acq, rel, io) == [out |-> out, acq |-> acq, rel |-> rel, io |-> io]

\* S3Storage.get
s3_get(c) ==
    Effect(IF c.raised THEN Raise(c.cause) ELSE Ok(get_out(c.body)), 1, 1, 1)

\* S3Storage.put
s3_put(c, fl) == Effect(IF c.raised THEN Raise(c.cause) ELSE Ok(Nothing), 1, 1, 1)

\* GCSStorage.get
gcs_get(c) == Effect(IF c.raised THEN Raise(c.cause) ELSE Ok(c.body), 1, 1, 1)

\* GCSStorage.put
gcs_put(c, fl) == Effect(IF c.raised THEN Raise(c.cause) ELSE Ok(Nothing), 1, 1, 1)

http_get_unchecked(c) ==
    Effect(IF c.raised THEN Raise(c.cause) ELSE Ok(c.body), 1, 1, 1)

\* HTTPStorage.get: the response is checked with raise_for_status() after the
\* semaphore is released
http_get(c) ==
    Effect(IF c.raised THEN Raise(c.cause)
           ELSE IF c.status >= 400 THEN Raise("HTTPStatusError")
           ELSE Ok(c.body), 1, 1, 1)

http_put_uploads(c, fl) == Effect(IF c.raised THEN Raise(c.cause) ELSE Ok(Nothing), 1, 1, 1)

\* HTTPStorage.put: raise RuntimeError("HTTP backend is read-only")
http_put(c, fl) == Effect(Raise("RuntimeError"), 0, 0, 0)

\* get of the backend of class cls when its client call does c
backend_get(cls, c) ==
    CASE cls = "S3Storage"   -> s3_get(c)
      [] cls = "GCSStorage"  -> gcs_get(c)
      [] cls = "HTTPStorage" -> http_get(c)

\* put of the backend of class cls when its client call does c
backend_put(cls, c, fl) ==
    CASE cls = "S3Storage"   -> s3_put(c, fl)
      [] cls = "GCSStorage"  -> gcs_put(c, fl)
      [] cls = "HTTPStorage" -> http_put(c, fl)

\* PooledStorage.get and put: the outcome of the wrapped call is the outcome
\* of the wrapper's call
pooled_call(wrapped, out) == out

\* ---------------------------------------------------------------- one caller
NoCall == [op |-> "none", key |-> None, cfail |-> FALSE, out |-> Ok(Nothing)]

BkInit ==
    /\ cfg \in Settings
    /\ mc \in {Omitted} \cup (1..MaxLimit)
    /\ pooled \in BOOLEAN
    /\ bk = Unbuilt
    /\ fs \in {[p \in Paths |-> Absent], [p \in Paths |-> IF p = <<>> THEN Dir ELSE Absent]}
    /\ calls = 0
    /\ last = NoCall
    /\ written = [k \in BKeys |-> Nothing]
    /\ nacq = 0 /\ nrel = 0 /\ npool = 0 /\ nio = 0

\* no backend is built beside the transfer
BkParked ==
    /\ cfg = [backend |-> "s3", required |-> "set"]
    /\ mc = Omitted
    /\ pooled = FALSE
    /\ bk = Unbuilt
    /\ fs = [p \in Paths |-> Absent]
    /\ calls = 0
    /\ last = NoCall
    /\ written = [k \in BKeys |-> Nothing]
    /\ nacq = 0 /\ nrel = 0 /\ npool = 0 /\ nio = 0

\* no transfer runs beside the backend
XferParked ==
    /\ XferInit
    /\ ~same
    /\ cap = [b \in Backends |-> DefaultMaxConcurrent]

Init == XferInit /\ BkParked

BInit == XferParked /\ BkInit

\* build_storage(cfg, mc) is called; LocalStorage.__init__ makes the root
Build ==
    /\ bk = Unbuilt
    /\ bk' = build_storage(cfg, mc)
    /\ fs' = IF bk'.cls = "LocalStorage" THEN local_init(fs) ELSE fs
    /\ UNCHANGED <<cfg, mc, pooled, calls, last, written, nacq, nrel, npool, nio>>
    /\ UNCHANGED xferVars

\* get(k) on the built LocalStorage, through PooledStorage when wrapped
LocalGet(k) ==
    /\ bk.cls = "LocalStorage"
    /\ calls < MaxCalls
    /\ LET r == local_get(fs, k)
           p == parts(k)
       IN  /\ fs' = r.fs
           /\ last' = [op |-> "get", key |-> k,
                       cfail |-> exists(fs, p) /\ ~read_bytes(fs, p).ok,
                       out |-> pooled_call(pooled, r.out)]
    /\ calls' = calls + 1
    /\ npool' = npool + (IF pooled THEN 1 ELSE 0)
    /\ UNCHANGED <<cfg, mc, pooled, bk, written, nacq, nrel, nio>>
    /\ UNCHANGED xferVars

\* put(k, io.BytesIO(b)) on the built LocalStorage
LocalPut(k, b) ==
    /\ bk.cls = "LocalStorage"
    /\ calls < MaxCalls
    /\ LET r == local_put(fs, k, BytesIO(b))
           p == parts(k)
           m == mkdir(fs, parent(p))
       IN  /\ fs' = r.fs
           /\ last' = [op |-> "put", key |-> k,
                       cfail |-> \/ m.err # NoCause
                                 \/ write_bytes(m.fs, p, b).err # NoCause,
                       out |-> pooled_call(pooled, r.out)]
           /\ written' = IF r.out.ok THEN [written EXCEPT ![k] = b] ELSE written
    /\ calls' = calls + 1
    /\ npool' = npool + (IF pooled THEN 1 ELSE 0)
    /\ UNCHANGED <<cfg, mc, pooled, bk, nacq, nrel, nio>>
    /\ UNCHANGED xferVars

\* get(k) on the built S3Storage, GCSStorage or HTTPStorage, whose client
\* call does c
RemoteGet(k, c) ==
    /\ bk.cls \in {"S3Storage", "GCSStorage", "HTTPStorage"}
    /\ calls < MaxCalls
    /\ c \in ClientOutcomes(bk.cls)
    /\ LET r == backend_get(bk.cls, c)
       IN  /\ last' = [op |-> "get", key |-> k,
                       cfail |-> r.io > 0 /\ client_failed(c),
                       out |-> pooled_call(pooled, r.out)]
           /\ nacq' = nacq + r.acq /\ nrel' = nrel + r.rel /\ nio' = nio + r.io
    /\ calls' = calls + 1
    /\ npool' = npool + (IF pooled THEN 1 ELSE 0)
    /\ UNCHANGED <<cfg, mc, pooled, bk, fs, written>>
    /\ UNCHANGED xferVars

\* put(k, io.BytesIO(b)) on the built S3Storage, GCSStorage or HTTPStorage,
\* whose client call, if one is made, does c
RemotePut(k, b, c) ==
    /\ bk.cls \in {"S3Storage", "GCSStorage", "HTTPStorage"}
    /\ calls < MaxCalls
    /\ c \in ClientOutcomes(bk.cls) /\ c.status = (IF c.raised THEN 0 ELSE 200)
    /\ LET r == backend_put(bk.cls, c, BytesIO(b))
       IN  /\ last' = [op |-> "put", key |-> k,
                       cfail |-> r.io > 0 /\ client_failed(c),
                       out |-> pooled_call(pooled, r.out)]
           /\ nacq' = nacq + r.acq /\ nrel' = nrel + r.rel /\ nio' = nio + r.io
    /\ calls' = calls + 1
    /\ npool' = npool + (IF pooled THEN 1 ELSE 0)
    /\ UNCHANGED <<cfg, mc, pooled, bk, fs, written>>
    /\ UNCHANGED xferVars

AllClientOutcomes ==
    UNION {ClientOutcomes(cls) : cls \in {"S3Storage", "GCSStorage", "HTTPStorage"}}

BNext ==
    \/ Build
    \/ \E k \in BKeys : LocalGet(k)
    \/ \E k \in BKeys, b \in BPayloads : LocalPut(k, b)
    \/ \E k \in BKeys, c \in AllClientOutcomes : RemoteGet(k, c)
    \/ \E k \in BKeys, b \in BPayloads, c \in AllClientOutcomes : RemotePut(k, b, c)

BackendSpec == BInit /\ [][BNext]_vars

Next ==
    \/ \E imgs \in KeyLists : Invoke(imgs)
    \/ \E i \in 1..MaxImages : TaskStart(i)
    \/ \E i \in 1..MaxImages : TaskResume(i)
    \/ \E i \in 1..MaxImages : TaskFinishOk(i)
    \/ \E i \in 1..MaxImages, e \in Causes : TaskFinishErr(i, e)
    \/ MainNext
    \/ PutResume
    \/ PutFinishOk
    \/ \E e \in Causes : PutFinishErr(e)

Spec == Init /\ [][Next]_vars

\* the steps of a run in which every client call returns
NextOk ==
    \/ \E imgs \in KeyLists : Invoke(imgs)
    \/ \E i \in 1..MaxImages : TaskStart(i)
    \/ \E i \in 1..MaxImages : TaskResume(i)
    \/ \E i \in 1..MaxImages : TaskFinishOk(i)
    \/ MainNext
    \/ PutResume
    \/ PutFinishOk

\* the event loop keeps running ready coroutines and every client call
\* returns: a step that stays possible is eventually taken
LiveSpec == Init /\ [][NextOk]_vars /\ WF_vars(NextOk)


\* ---------------------------------------------------------------- properties
\* the coroutines that call get or put on backend instance b
CallersOn(b) == {c \in DOMAIN st : (c # 0 /\ b = "in") \/ (c = 0 /\ b = OutB)}

\* the callers whose client call is in progress on b
InProgress(b) == {c \in CallersOn(b) : st[c] = "running"}

\* the callers that hold a permit of b
Holders(b) == {c \in CallersOn(b) : st[c] \in {"woken", "running"}}

Ended == pc \in {"returned", "raised"}

Quiescent == Ended /\ \A i \in Tasks : st[i] \in {"done", "failed"}

\* j completed its download before i did
CompletedBefore(j, i) ==
    \E p, q \in 1..Len(completed) : p < q /\ completed[p] = j /\ completed[q] = i

\* C1: on every backend instance the number of client calls in progress, get
\* and put together, is at most its concurrency limit
C1_ConcurrencyBound ==
    \A b \in Backends : Cardinality(InProgress(b)) <= cap[b]

\* a get and a put are in progress on the same instance, the limit is reached
C1_Witness ==
    /\ same /\ cap["in"] = 2
    /\ st[0] = "running"
    /\ Cardinality(InProgress("in")) = 2

PermitsConserved ==
    \A b \in Backends :
        /\ sem[b].value >= 0
        /\ sem[b].value <= cap[b]
        /\ sem[b].value + Cardinality(Holders(b)) = cap[b]

\* the client call of caller c raises in this step
RaisesIn(c) ==
    /\ st[c] = "running"
    /\ IF c = 0 THEN ust'[cur] = "failed" ELSE st'[c] = "failed"

\* C2: when the client call of a get or put raises, its permit is released
\* exactly once (available permits never exceed the capacity, and held plus
\* available permits equal the capacity), and a caller waiting for a permit
\* holds it right after the release
C2_ReleaseOnFailure ==
    /\ []PermitsConserved
    /\ [][\A b \in Backends : \A c \in CallersOn(b) :
            RaisesIn(c) =>
                /\ c \notin Holders(b)'
                /\ IF \E w \in CallersOn(b) : st[w] = "waiting"
                   THEN /\ \E w \in CallersOn(b) : st[w] = "waiting" /\ st'[w] = "woken"
                        /\ sem'[b].value = sem[b].value
                   ELSE sem'[b].value = sem[b].value + 1]_vars

\* the first get failed with limit 1 and the waiting second get holds the permit
C2_Witness ==
    /\ cap["in"] = 1
    /\ completed = <<1>>
    /\ st[1] = "failed"
    /\ 2 \in Tasks /\ st[2] = "woken"

\* C3 as claimed: when exactly one download failed and nothing else did, every
\* other key is downloaded and uploaded, and the failure reaches the caller
C3_IsolatedDownloadFailure ==
    \A i \in Tasks :
        ( /\ Quiescent
          /\ st[i] = "failed"
          /\ \A j \in Tasks \ {i} : st[j] = "done" /\ ust[j] # "failed" )
        => /\ \A j \in Tasks \ {i} : ust[j] = "done"
           /\ pc = "raised" /\ cur = i

\* C4 as claimed: a failed upload prevents the upload of no other key whose
\* download succeeded
C4_IsolatedUploadFailure ==
    \A i \in Tasks :
        (Quiescent /\ ust[i] = "failed")
        => \A j \in Tasks \ {i} : st[j] = "done" => ust[j] = "done"

\* C5 as claimed: when download_images ends, every occurrence is either
\* uploaded or its failure is the one the caller received
C5_EveryOutcomeReported ==
    Ended =>
        \A i \in Tasks :
            \/ ust[i] = "done"
            \/ pc = "raised" /\ cur = i /\ exc # NoCause

\* C6: output.put for an occurrence is called only after that occurrence's
\* input.get returned, with its key, and the bytes uploaded are the bytes
\* that get returned
C6_UploadAfterOwnDownload ==
    \A i \in Tasks :
        ust[i] # "none" =>
            /\ st[i] = "done"
            /\ putKey[i] = images[i]
            /\ ust[i] = "started" => (cur = i /\ read(file) = result[i][2])
            /\ ust[i] = "done" => putData[i] = result[i][2]

\* an object of two bytes was uploaded while another download is in progress
C6_Witness ==
    \E i, j \in Tasks :
        /\ ust[i] = "done" /\ Len(putData[i]) = 2
        /\ st[j] = "running"

\* C7 as claimed: while nothing failed and the destination has a free permit,
\* a downloaded key whose upload has not started is never kept waiting by the
\* unfinished upload of another key
C7_UploadNotDelayed ==
    (\A j \in Tasks : st[j] # "failed" /\ ust[j] # "failed") =>
        \A i \in Tasks :
            (st[i] = "done" /\ ust[i] = "none" /\ sem[OutB].value > 0) =>
                ~ \E j \in Tasks \ {i} : ust[j] = "started"

\* C8: uploads start in the order the downloads complete, one after the
\* other: when the upload of an occurrence has started, the upload of every
\* occurrence that completed its download earlier has finished
C8_UploadsInCompletionOrder ==
    \A i, j \in Tasks :
        (CompletedBefore(j, i) /\ ust[i] # "none") => ust[j] = "done"

\* limit 2, keys [a, b, c], b and c downloaded before a, a's upload started
C8_Witness ==
    /\ cap["in"] = 2
    /\ images = <<"a", "b", "c">>
    /\ completed = <<2, 3, 1>>
    /\ ust = <<"started", "done", "done">>

\* C9 as claimed: when download_images ends, every download has completed
\* and every upload of a downloaded occurrence has completed or failed
C9_NothingOutlivesTheCall ==
    Ended =>
        \A i \in Tasks :
            /\ st[i] \in {"done", "failed"}
            /\ st[i] = "done" => ust[i] \in {"done", "failed"}

\* C10: once download_images is called there is one download task per
\* occurrence, before any of them is awaited, and a download waits only
\* while every permit of the source is held
C10_AllStartedSourceBound ==
    pc # "idle" =>
        /\ Tasks = 1..Len(images)
        /\ \A i \in Tasks :
              st[i] = "waiting" =>
                  /\ sem["in"].value = 0
                  /\ Cardinality(Holders("in")) = cap["in"]

\* limit 2 and three keys: two downloads in progress, the third waits, and
\* download_images has awaited nothing yet
C10_Witness ==
    /\ cap["in"] = 2 /\ N = 3
    /\ taken = 0 /\ completed = <<>>
    /\ Cardinality({i \in Tasks : st[i] = "running"}) = 2
    /\ \E i \in Tasks : st[i] = "waiting"

RECURSIVE SumTo(_, _)
SumTo(f, n) == IF n = 0 THEN 0 ELSE f[n] + SumTo(f, n - 1)

\* C11: for a list of n keys, duplicates included, input.get is called exactly
\* once per occurrence (n calls once every task has run) and output.put at
\* most once per occurrence, exactly once each when download_images returns;
\* a failed get or put is never called again
C11_OneGetOnePutPerOccurrence ==
    pc # "idle" =>
        /\ Tasks = 1..Len(images)
        /\ \A i \in Tasks :
              /\ ngets[i] = (IF st[i] = "created" THEN 0 ELSE 1)
              /\ nputs[i] = (IF ust[i] = "none" THEN 0 ELSE 1)
              /\ st[i] = "failed" => nputs[i] = 0
        /\ AllStarted => SumTo(ngets, Len(ngets)) = Len(images)
        /\ pc = "returned" => SumTo(nputs, Len(nputs)) = Len(images)

\* a list with a duplicate key was transferred: two gets and two puts of "a"
C11_Witness ==
    /\ images = <<"a", "a">>
    /\ pc = "returned"
    /\ ngets = <<1, 1>> /\ nputs = <<1, 1>>

\* C18: when every client call returns, download_images eventually returns
\* with every occurrence uploaded, whatever the limits, also when input and
\* output are one instance of capacity 1
C18_Terminates ==
    <>(/\ pc = "returned"
       /\ Tasks = 1..Len(images)
       /\ \A i \in Tasks : st[i] = "done" /\ ust[i] = "done")

\* three keys went through one backend instance of capacity 1
C18_Witness ==
    /\ same /\ cap["in"] = 1
    /\ N = 3
    /\ pc = "returned"
    /\ \A i \in Tasks : ust[i] = "done"

\* C19: at most one output.put of an invocation is in progress at any time,
\* whatever the limit of the output backend
C19_OneUploadAtATime ==
    Cardinality({i \in Tasks : ust[i] = "started"}) <= 1

\* the output backend has a free permit, one upload is in progress and a
\* downloaded key waits for its upload
C19_Witness ==
    /\ ~same /\ cap["out"] = 2 /\ sem["out"].value = 1
    /\ \E i, j \in Tasks :
          /\ ust[i] = "started"
          /\ st[j] = "done" /\ ust[j] = "none"

\* the client calls submitted to the executor of b and not finished
executor_jobs(b) == InProgress(b)

\* the jobs waiting in the executor's queue for a free worker
executor_queued(b) ==
    LET j == Cardinality(executor_jobs(b))
        w == max_workers(cap[b])
    IN  IF j > w THEN j - w ELSE 0

\* C20: a client call is submitted only by a caller that holds a permit and
\* the executor has as many workers as there are permits, so no submitted
\* job waits for a worker
C20_NoJobQueued ==
    \A b \in Backends :
        /\ executor_jobs(b) \subseteq Holders(b)
        /\ Cardinality(executor_jobs(b)) <= cap[b] - sem[b].value
        /\ executor_queued(b) = 0

\* both workers of the shared backend are busy and the put waits for a permit
C20_Witness ==
    /\ same /\ cap["in"] = 2
    /\ st[0] = "waiting"
    /\ Cardinality(executor_jobs("in")) = 2

\* the class build_storage documents for each discriminator
class_of(kind) ==
    CASE kind = "local" -> "LocalStorage"
      [] kind = "http"  -> "HTTPStorage"
      [] kind = "s3"    -> "S3Storage"
      [] kind = "gcs"   -> "GCSStorage"
      [] OTHER -> "none"

\* C12 as claimed: whatever the kind, the backend build_storage returns is of
\* the matching class and its permit capacity is the max_concurrent given
\* (1 when omitted)
C12_BuiltWithRequestedLimit ==
    bk.instances = 1 =>
        /\ bk.cls = class_of(cfg.backend)
        /\ bk.capacity = arg_or_default(mc)

\* C13: build_storage raises AssertionError when the field its kind needs is
\* None and NotImplementedError when no case matches the discriminator, two
\* different errors, both before any backend is constructed; otherwise it
\* constructs one backend
C13_FactoryErrors ==
    bk # Unbuilt =>
        /\ (cfg.backend \in Kinds /\ cfg.required = None) =>
              (bk.err = "AssertionError" /\ bk.instances = 0 /\ bk.cls = "none")
        /\ cfg.backend \notin Kinds =>
              (bk.err = "NotImplementedError" /\ bk.instances = 0 /\ bk.cls = "none")
        /\ (cfg.backend \in Kinds /\ cfg.required # None) =>
              (bk.err = NoCause /\ bk.instances = 1 /\ bk.cls = class_of(cfg.backend))
        /\ bk.instances = 0 => calls = 0

\* s3 settings without a bucket were refused
C13_Witness ==
    /\ cfg = [backend |-> "s3", required |-> None]
    /\ bk.err = "AssertionError"

\* C14: on a LocalStorage, get(k) returns the bytes of the last put to k that
\* returned, whatever was put to k before and to other keys since
C14_LocalRoundTrip ==
    bk.cls = "LocalStorage" =>
        /\ \A k \in BKeys :
              written[k] # Nothing => local_get(fs, k).out = Ok(written[k])
        /\ (last.op = "get" /\ written[last.key] # Nothing) =>
              last.out = Ok(written[last.key])

\* after three calls a get of "a" returned the two bytes last put there
C14_Witness ==
    /\ bk.cls = "LocalStorage"
    /\ calls = 3
    /\ last.op = "get" /\ last.key = "a"
    /\ last.out = Ok(<<2, 1>>)

\* C15: every put on an HTTPStorage raises RuntimeError without calling the
\* client, taking or releasing the semaphore, or changing anything
C15_HttpPutReadOnly ==
    [][(bk.cls = "HTTPStorage" /\ calls' = calls + 1 /\ last'.op = "put") =>
            /\ last'.out = Raise("RuntimeError")
            /\ ~last'.cfail
            /\ nio' = nio /\ nacq' = nacq /\ nrel' = nrel
            /\ fs' = fs /\ bk' = bk /\ written' = written]_vars

\* a put was refused after a get had used the client and the semaphore
C15_Witness ==
    /\ bk.cls = "HTTPStorage"
    /\ last.op = "put" /\ last.out = Raise("RuntimeError")
    /\ calls = 2 /\ nio = 1 /\ nacq = 1 /\ nrel = 1

\* C16 as claimed: a get of a key at which no file is stored raises
\* FileNotFoundError and leaves the filesystem unchanged
C16_GetMissingIsNotFound ==
    [][(/\ bk.cls = "LocalStorage"
        /\ calls' = calls + 1
        /\ last'.op = "get"
        /\ fs[parts(last'.key)].t # "file") =>
            /\ last'.out = Raise("FileNotFoundError")
            /\ fs' = fs]_vars

\* C17: a get or put whose underlying call failed (the client raised or
\* answered with an error status, a filesystem call raised) raises, through
\* PooledStorage too, and returns no payload
C17_FailurePropagates ==
    last.cfail => (~last.out.ok /\ last.out.val = NoResult /\ last.out.err # NoCause)

\* a get through PooledStorage on an HTTPStorage met an error status
C17_Witness ==
    /\ pooled /\ bk.cls = "HTTPStorage"
    /\ last.op = "get" /\ last.cfail
    /\ last.out = Raise("HTTPStatusError")

====
